---- MODULE Spec2Model ----
(***************************************************************************)
(* Model of the article processing pipeline: the processing_queue status   *)
(* rows, the three RQ stage handlers of app/orchestrator/workers.py, the   *)
(* RQ queues of app/queue/client.py and the ArticlePipeline orchestrator   *)
(* of app/orchestrator/pipeline.py.                                        *)
(*                                                                         *)
(* Every database statement or commit, every enqueue and every external    *)
(* collaborator call of a handler is one step, so that the steps of        *)
(* several worker processes interleave the way they do on the shared       *)
(* PostgreSQL and Redis backends.                                          *)
(***************************************************************************)
EXTENDS Integers, Sequences, FiniteSets, TLC

\* ------------------------------------------------------------------ bounds
NumItems == 1
NumWorkers == 2
\* calls of process_article the orchestrator may make in one behaviour
MaxSubmits == 2
MaxSeqSubmits == 4
MaxFailSubmits == 3
MaxExtractSubmits == 3
MaxOrchSubmits == 3
MaxRetrySubmits == 4
\* longest list of ids passed to process_articles_batch
MaxBatchLen == 2

\* ------------------------------------------------------- program constants
DefaultMaxRetries == 3
MaxAttempts == 3
MinExtractedLen == 100
MinSummaryInput == 50
MinEmbedInput == 10

Items == 1..NumItems
Workers == 1..NumWorkers

\* ProcessingStatus enum values
PENDING == "pending"
EXTRACTING == "extracting"
SUMMARIZING == "summarizing"
EMBEDDING == "embedding"
COMPLETED == "completed"
FAILED == "failed"

Statuses == {PENDING, EXTRACTING, SUMMARIZING, EMBEDDING, COMPLETED, FAILED}

\* queue / stage names
EXTRACTION == "extraction"
SUMMARIZATION == "summarization"
Stages == {EXTRACTION, SUMMARIZATION, EMBEDDING}

None == "none"

\* lengths the collaborators and the scrapers can produce (0 = None or '')
DescLen == 60
ExtractLens == {0, 49, 101}

\* the method tag the extractor reports for the content it returns
Method == "method"
SummaryLens == {5, 200}
RetryLimits == {1, DefaultMaxRetries}

VARIABLES
  exists,     \* exists[i]: a row of table articles has id i
  descLen,    \* len(article.content), the scraped description
  fullLen,    \* len(article.full_content), 0 when NULL
  extractionMethod, \* article.extraction_method, None when NULL
  pstat,      \* article.processing_status column
  inWindow,   \* article.scraped_at >= cutoff_time
  rows,       \* rows[i]: the processing_queue rows with article_id = i
  sums,       \* sums[i]: the article_summaries rows with article_id = i
  embs,       \* embs[i]: the article_embeddings rows with article_id = i
  q,          \* q[s][i]: jobs for item i waiting on RQ queue s
  wk,         \* wk[w]: the job worker process w is executing
  budget,     \* calls of process_article still explored
  report      \* what the last call of the orchestrator returned, for the
              \* callers that keep it

vars == <<exists, descLen, fullLen, extractionMethod, pstat, inWindow, rows,
          sums, embs, q, wk, budget, report>>

dbVars == <<exists, descLen, fullLen, extractionMethod, pstat, inWindow, rows,
            sums, embs>>
artVars == <<exists, descLen, fullLen, extractionMethod, pstat, inWindow>>

\* what a session keeps of the queue_entry it has loaded (idx = 0: no row):
\* which row it is, which of the attributes about to be assigned already
\* hold the assigned value, and the loaded retry_count
NoSnap == [idx |-> 0, sameStatus |-> FALSE, sameStage |-> FALSE,
           sameErr |-> FALSE, rc |-> 0]

\* a worker process between two jobs. Of the job it executes a worker keeps:
\* had (the handler found its result already stored), calls (invocations of
\* the stage's collaborator), enq / qfail (enqueue calls that returned a job
\* id / None), inval (calls of cache.delete), open (database sessions it
\* has got from get_db() and not closed) and tried (attempts the stage's
\* collaborator has made: extraction methods, calls of the model)
Idle == [pc |-> "idle", h |-> None, item |-> 0, st |-> None, sg |-> None,
         er |-> None, k |-> None, snap |-> NoSnap, had |-> FALSE,
         calls |-> 0, enq |-> 0, qfail |-> 0, inval |-> 0, open |-> 0,
         tried |-> 0]

\* no call of the orchestrator has returned to a caller that keeps the result
NoReport == [op |-> None, ret |-> None]

\* the tables after the scrapers have stored the articles and before any
\* pipeline call: no processing_queue, summary or embedding row, no job
InitStores ==
  /\ exists \in [Items -> BOOLEAN]
  /\ descLen = [i \in Items |-> DescLen]
  /\ fullLen = [i \in Items |-> 0]
  /\ extractionMethod = [i \in Items |-> None]
  /\ pstat = [i \in Items |-> PENDING]
  /\ inWindow = [i \in Items |-> TRUE]
  /\ rows = [i \in Items |-> <<>>]
  /\ sums = [i \in Items |-> <<>>]
  /\ embs = [i \in Items |-> <<>>]
  /\ q = [s \in Stages |-> [i \in Items |-> 0]]
  /\ wk = [w \in Workers |-> Idle]
  /\ report = NoReport

Init == InitStores /\ budget = MaxSubmits

\* ------------------------------------------------------------ StatusStore

\* the processing_queue rows of item i, by position
RowIds(i) == 1..Len(rows[i])

\* ProcessingQueue(article_id, status, current_stage): retry_count and
\* error_message take their column defaults
NewRow(st, sg) == [status |-> st, stage |-> sg, rc |-> 0, err |-> None]

\* UpdatedRow resetting error_message and retry_count on a write without
\* an error
UpdatedRowClearing(row, snap, st, sg, er) ==
  [status |-> IF ~snap.sameStatus THEN st ELSE row.status,
   stage  |-> IF sg # None /\ ~snap.sameStage THEN sg ELSE row.stage,
   err    |-> IF er # None THEN er ELSE None,
   rc     |-> IF er # None THEN snap.rc + 1 ELSE 0]

\* the UPDATE the session flushes for a loaded queue_entry: the unit of work
\* writes the attributes whose value differs from the loaded one
UpdatedRow(row, snap, st, sg, er) ==
  [status |-> IF ~snap.sameStatus THEN st ELSE row.status,
   stage  |-> IF sg # None /\ ~snap.sameStage THEN sg ELSE row.stage,
   err    |-> IF er # None /\ ~snap.sameErr THEN er ELSE row.err,
   rc     |-> IF er # None THEN snap.rc + 1 ELSE row.rc]

\* update_processing_status is entered: db = get_db(); remember the
\* arguments and where the handler continues afterwards
UpsCall(job, st, sg, er, k) ==
  [job EXCEPT !.pc = "ups_read", !.st = st, !.sg = sg, !.er = er, !.k = k,
              !.snap = NoSnap, !.open = @ + 1]

CallUps(w, st, sg, er, k) ==
  wk' = [wk EXCEPT ![w] = UpsCall(wk[w], st, sg, er, k)]

\* the handler is at its return True / return False
IsReturn(k) == k \in {"ret_true", "ret_false"}

\* the handler is behind its first statement, the in-progress status write
IsEntry(k) == k \in {"e_load", "s_load", "m_load"}

\* Leave without the finally clause of the handler
LeaveNoClose(job, k) == [job EXCEPT !.pc = k]

\* the handler goes on at k; a return runs finally: db.close() first
Leave(job, k) ==
  [job EXCEPT !.pc = k, !.open = IF IsReturn(k) THEN @ - 1 ELSE @]

\* update_processing_status has returned (finally: db.close()); behind its
\* first statement the handler opens its own session, db = get_db()
AfterUps(job) ==
  IF IsEntry(job.k)
    THEN [job EXCEPT !.pc = job.k, !.snap = NoSnap, !.open = @ - 1 + 1]
    ELSE Leave([job EXCEPT !.snap = NoSnap, !.open = @ - 1], job.k)

\* the loaded queue_entry row, as far as the assignments of st, sg and er
\* depend on it
Loaded(row, idx, st, sg, er) ==
  [idx |-> idx,
   sameStatus |-> row.status = st,
   sameStage |-> sg # None /\ row.stage = sg,
   sameErr |-> er # None /\ row.err = er,
   rc |-> IF er # None THEN row.rc ELSE 0]

\* db.query(ProcessingQueue).filter(article_id == ...).first(): without an
\* ORDER BY the database returns any one of the rows
UpsRead(w) ==
  /\ wk[w].pc = "ups_read"
  /\ LET i == wk[w].item IN
       \/ /\ rows[i] = <<>>
          /\ wk' = [wk EXCEPT ![w].pc = "ups_commit", ![w].snap = NoSnap]
       \/ \E idx \in 1..Len(rows[i]) :
            wk' = [wk EXCEPT ![w].pc = "ups_commit",
                             ![w].snap = Loaded(rows[i][idx], idx, wk[w].st,
                                                wk[w].sg, wk[w].er)]
  /\ UNCHANGED <<dbVars, q, budget, report>>

\* the rows of item i after the commit of update_processing_status
RowsAfterUps(i, snap, st, sg, er) ==
  IF snap.idx = 0
    THEN IF exists[i] THEN Append(rows[i], NewRow(st, sg)) ELSE rows[i]
    ELSE [rows[i] EXCEPT ![snap.idx] = UpdatedRow(@, snap, st, sg, er)]

\* db.add / attribute writes, db.commit(), db.close(), return
UpsCommit(w) ==
  /\ wk[w].pc = "ups_commit"
  /\ LET i == wk[w].item IN
       rows' = [rows EXCEPT ![i] =
                  RowsAfterUps(i, wk[w].snap, wk[w].st, wk[w].sg, wk[w].er)]
  /\ wk' = [wk EXCEPT ![w] = AfterUps(wk[w])]
  /\ UNCHANGED <<artVars, sums, embs, q, budget, report>>

\* ---------------------------------------------------------------- JobQueue

\* queue.enqueue(...) inside try/except: a job id (up), or None when Redis
\* is unreachable
Enqueued(s, i, up) ==
  IF up THEN [q EXCEPT ![s][i] = @ + 1] ELSE q

\* the handler has called enqueue_summarization / enqueue_embedding
AfterEnqueue(job, up) ==
  IF up THEN [job EXCEPT !.enq = @ + 1] ELSE [job EXCEPT !.qfail = @ + 1]

\* the in-progress status a handler writes first
InProgress(s) ==
  CASE s = EXTRACTION -> EXTRACTING
    [] s = SUMMARIZATION -> SUMMARIZING
    [] OTHER -> EMBEDDING

FirstPc(s) ==
  CASE s = EXTRACTION -> "e_load"
    [] s = SUMMARIZATION -> "s_load"
    [] OTHER -> "m_load"

\* an idle worker pulls one job and enters its handler, whose first
\* statement is update_processing_status(id, <in progress>, <stage>)
Dequeue(w, s, i) ==
  /\ wk[w].pc = "idle"
  /\ q[s][i] > 0
  /\ q' = [q EXCEPT ![s][i] = @ - 1]
  /\ wk' = [wk EXCEPT ![w] = UpsCall([Idle EXCEPT !.h = s, !.item = i],
                                     InProgress(s), s, None, FirstPc(s))]
  /\ UNCHANGED <<dbVars, budget, report>>

\* the handler has returned: RQ acknowledges the job and the worker is free
Return(w) ==
  /\ IsReturn(wk[w].pc)
  /\ wk' = [wk EXCEPT ![w] = Idle]
  /\ UNCHANGED <<dbVars, q, budget, report>>

\* Raise returning False without recording Failed
RaiseNoStatus(w) == wk' = [wk EXCEPT ![w] = Leave(wk[w], "ret_false")]

\* except Exception as e: update_processing_status(FAILED, error=str(e))
Raise(w) == CallUps(w, FAILED, None, "exception", "ret_false")

\* ------------------------------------------------------- Extraction handler

\* HasFullContent with the comparison off by one
HasFullContentInclusive(i) == fullLen[i] >= MinExtractedLen

\* article.full_content and len(article.full_content) > 100
HasFullContent(i) == fullLen[i] > MinExtractedLen

\* article = db.query(Article)...first() and the two branches that need
\* no extractor
ELoad(w) ==
  /\ wk[w].pc = "e_load"
  /\ LET i == wk[w].item IN
       IF ~exists[i]
         THEN CallUps(w, FAILED, None, "Article not found", "ret_false")
         ELSE IF HasFullContent(i)
           THEN wk' = [wk EXCEPT ![w] =
                         UpsCall([wk[w] EXCEPT !.had = TRUE], PENDING,
                                 SUMMARIZATION, None, "e_skip")]
           ELSE wk' = [wk EXCEPT ![w].pc = "e_extract"]
  /\ UNCHANGED <<dbVars, q, budget, report>>

\* ESkip chaining past the Summarization stage
ESkipToEmbedding(w) ==
  /\ wk[w].pc = "e_skip"
  /\ \E up \in BOOLEAN :
       /\ q' = Enqueued(EMBEDDING, wk[w].item, up)
       /\ wk' = [wk EXCEPT ![w] =
                   Leave(AfterEnqueue(wk[w], up), "ret_true")]
  /\ UNCHANGED <<dbVars, budget, report>>

\* short-circuit branch: enqueue_summarization after the status write
ESkip(w) ==
  /\ wk[w].pc = "e_skip"
  /\ \E up \in BOOLEAN :
       /\ q' = Enqueued(SUMMARIZATION, wk[w].item, up)
       /\ wk' = [wk EXCEPT ![w] =
                   Leave(AfterEnqueue(wk[w], up), "ret_true")]
  /\ UNCHANGED <<dbVars, budget, report>>

\* EExtract with enqueue_summarization called before the result of the
\* extractor is examined
EExtractEnqueueFirst(w, len) ==
  /\ wk[w].pc = "e_extract"
  /\ q' = Enqueued(SUMMARIZATION, wk[w].item, TRUE)
  /\ LET i == wk[w].item
         job == AfterEnqueue([wk[w] EXCEPT !.calls = 1], TRUE)
     IN  IF len > 0
           THEN /\ fullLen' = [fullLen EXCEPT ![i] = len]
                /\ extractionMethod' = [extractionMethod EXCEPT ![i] = Method]
                /\ pstat' = [pstat EXCEPT ![i] = EXTRACTING]
                /\ wk' = [wk EXCEPT ![w] =
                            UpsCall(job, PENDING, SUMMARIZATION, None,
                                    "ret_true")]
           ELSE /\ wk' = [wk EXCEPT ![w] =
                            UpsCall(job, FAILED, None,
                                    "Content extraction failed", "ret_false")]
                /\ UNCHANGED <<fullLen, extractionMethod, pstat>>
  /\ UNCHANGED <<exists, descLen, inWindow, rows, sums, embs, budget, report>>

\* the extractor returns content of length len (0: None or empty text);
\* non-empty content is stored on the article and committed
EExtract(w, len) ==
  /\ wk[w].pc = "e_extract"
  /\ LET i == wk[w].item IN
       IF len > 0
         THEN /\ fullLen' = [fullLen EXCEPT ![i] = len]
              /\ extractionMethod' = [extractionMethod EXCEPT ![i] = Method]
              /\ pstat' = [pstat EXCEPT ![i] = EXTRACTING]
              /\ wk' = [wk EXCEPT ![w].pc = "e_enqueue", ![w].calls = 1]
         ELSE /\ wk' = [wk EXCEPT ![w] =
                          UpsCall([wk[w] EXCEPT !.calls = 1], FAILED, None,
                                  "Content extraction failed", "ret_false")]
              /\ UNCHANGED <<fullLen, extractionMethod, pstat>>
  /\ UNCHANGED <<exists, descLen, inWindow, rows, sums, embs, q, budget, report>>

\* a method of the extractor raises instead of returning a text
Raises == -1

\* what one extraction method does for a url: it raises, or it returns a
\* text of that length (0: the page yields no text)
MethodOutcomes == {Raises, 0, MinExtractedLen + 1}

\* _extract_with_beautifulsoup: the dict, or None when anything raised
ExtractWithBeautifulsoup(fallback) ==
  IF fallback # Raises
    THEN [result |-> TRUE, len |-> fallback, method |-> "beautifulsoup",
          tried |-> 2]
    ELSE [result |-> FALSE, len |-> 0, method |-> "failed", tried |-> 2]

\* extract_article_content: the newspaper3k dict whatever its text, the
\* fallback in the except branch only
ExtractArticleContent(primary, fallback) ==
  IF primary # Raises
    THEN [result |-> TRUE, len |-> primary, method |-> "newspaper3k",
          tried |-> 1]
    ELSE ExtractWithBeautifulsoup(fallback)

\* extract_content for a web article: result = extract_article_content(url),
\* then if result and result.get('content')
EExtractArticle(w, primary, fallback) ==
  /\ wk[w].pc = "e_extract"
  /\ LET i == wk[w].item
         r == ExtractArticleContent(primary, fallback)
         job == [wk[w] EXCEPT !.calls = 1, !.tried = r.tried]
     IN  IF r.result /\ r.len > 0
           THEN /\ fullLen' = [fullLen EXCEPT ![i] = r.len]
                /\ extractionMethod' = [extractionMethod EXCEPT ![i] = r.method]
                /\ pstat' = [pstat EXCEPT ![i] = EXTRACTING]
                /\ wk' = [wk EXCEPT ![w] = [job EXCEPT !.pc = "e_enqueue"]]
           ELSE /\ wk' = [wk EXCEPT ![w] =
                            UpsCall(job, FAILED, None,
                                    "Content extraction failed", "ret_false")]
                /\ UNCHANGED <<fullLen, extractionMethod, pstat>>
  /\ UNCHANGED <<exists, descLen, inWindow, rows, sums, embs, q, budget, report>>

\* EEnqueue without the Pending/summarization status write
EEnqueueNoStatus(w) ==
  /\ wk[w].pc = "e_enqueue"
  /\ \E up \in BOOLEAN :
       /\ q' = Enqueued(SUMMARIZATION, wk[w].item, up)
       /\ wk' = [wk EXCEPT ![w] =
                   Leave(AfterEnqueue(wk[w], up), "ret_true")]
  /\ UNCHANGED <<dbVars, budget, report>>

\* EEnqueue recording Failed when enqueue_summarization returns None
EEnqueueFailOnNone(w) ==
  /\ wk[w].pc = "e_enqueue"
  /\ \E up \in BOOLEAN :
       /\ q' = Enqueued(SUMMARIZATION, wk[w].item, up)
       /\ wk' = [wk EXCEPT ![w] =
                   IF up
                     THEN UpsCall(AfterEnqueue(wk[w], up), PENDING,
                                  SUMMARIZATION, None, "ret_true")
                     ELSE UpsCall(AfterEnqueue(wk[w], up), FAILED, None,
                                  "Enqueue failed", "ret_false")]
  /\ UNCHANGED <<dbVars, budget, report>>

\* enqueue_summarization, then the Pending/summarization status write
EEnqueue(w) ==
  /\ wk[w].pc = "e_enqueue"
  /\ \E up \in BOOLEAN :
       /\ q' = Enqueued(SUMMARIZATION, wk[w].item, up)
       /\ wk' = [wk EXCEPT ![w] =
                   UpsCall(AfterEnqueue(wk[w], up), PENDING, SUMMARIZATION,
                           None, "ret_true")]
  /\ UNCHANGED <<dbVars, budget, report>>

\* ---------------------------------------------------- Summarization handler

\* content = article.full_content or article.content
ContentLen(i) == IF fullLen[i] > 0 THEN fullLen[i] ELSE descLen[i]

\* InsufficientContent with the comparison off by one
InsufficientContentInclusive(i) == ContentLen(i) <= MinSummaryInput

\* not content or len(content) < 50
InsufficientContent(i) == ContentLen(i) < MinSummaryInput

\* SLoad with the content check ahead of the check for an existing summary
SLoadContentFirst(w) ==
  /\ wk[w].pc = "s_load"
  /\ LET i == wk[w].item IN
       IF ~exists[i]
         THEN CallUps(w, FAILED, None, "Article not found", "ret_false")
         ELSE IF InsufficientContent(i)
           THEN CallUps(w, FAILED, None, "Insufficient content",
                        "ret_false")
           ELSE IF sums[i] # <<>>
             THEN wk' = [wk EXCEPT ![w] =
                           UpsCall([wk[w] EXCEPT !.had = TRUE], PENDING,
                                   EMBEDDING, None, "s_skip")]
             ELSE wk' = [wk EXCEPT ![w].pc = "s_summarize"]
  /\ UNCHANGED <<dbVars, q, budget, report>>

\* article, existing_summary and content are loaded; the branches that need
\* no summarizer
SLoad(w) ==
  /\ wk[w].pc = "s_load"
  /\ LET i == wk[w].item IN
       IF ~exists[i]
         THEN CallUps(w, FAILED, None, "Article not found", "ret_false")
         ELSE IF sums[i] # <<>>
           THEN wk' = [wk EXCEPT ![w] =
                         UpsCall([wk[w] EXCEPT !.had = TRUE], PENDING,
                                 EMBEDDING, None, "s_skip")]
           ELSE IF InsufficientContent(i)
             THEN CallUps(w, FAILED, None, "Insufficient content",
                          "ret_false")
             ELSE wk' = [wk EXCEPT ![w].pc = "s_summarize"]
  /\ UNCHANGED <<dbVars, q, budget, report>>

\* short-circuit branch: enqueue_embedding after the status write
SSkip(w) ==
  /\ wk[w].pc = "s_skip"
  /\ \E up \in BOOLEAN :
       /\ q' = Enqueued(EMBEDDING, wk[w].item, up)
       /\ wk' = [wk EXCEPT ![w] =
                   Leave(AfterEnqueue(wk[w], up), "ret_true")]
  /\ UNCHANGED <<dbVars, budget, report>>

\* the INSERT of a second row with the same article_id is rejected
UniqueViolation(table, i) == table[i] # <<>>

\* the collaborator was invoked and the handler records Failed: it returned
\* None (reason er), or the commit of its result raised ("exception")
Called(job, er) ==
  UpsCall([job EXCEPT !.calls = 1], FAILED, None, er, "ret_false")

\* SSummarize with the stored summary replaced by the new result instead of
\* a plain INSERT
SSummarizeReplace(w) ==
  /\ wk[w].pc = "s_summarize"
  /\ LET i == wk[w].item IN
       \/ \E len \in SummaryLens :
            /\ sums' = [sums EXCEPT ![i] = <<[len |-> len]>>]
            /\ pstat' = [pstat EXCEPT ![i] = SUMMARIZING]
            /\ wk' = [wk EXCEPT ![w].pc = "s_enqueue", ![w].calls = 1]
       \/ /\ wk' = [wk EXCEPT ![w] = Called(wk[w], "Summarization failed")]
          /\ UNCHANGED <<sums, pstat>>
  /\ UNCHANGED <<exists, descLen, fullLen, extractionMethod, inWindow, rows,
                 embs, q, budget, report>>

\* summarizer.summarize returns a result whose summary has length len, or
\* None; the result is inserted and committed
SSummarize(w) ==
  /\ wk[w].pc = "s_summarize"
  /\ LET i == wk[w].item IN
       \/ \E len \in SummaryLens :
            IF UniqueViolation(sums, i)
              THEN /\ wk' = [wk EXCEPT ![w] = Called(wk[w], "exception")]
                   /\ UNCHANGED <<sums, pstat>>
              ELSE /\ sums' = [sums EXCEPT ![i] =
                                 Append(@, [len |-> len])]
                   /\ pstat' = [pstat EXCEPT ![i] = SUMMARIZING]
                   /\ wk' = [wk EXCEPT ![w].pc = "s_enqueue", ![w].calls = 1]
       \/ /\ wk' = [wk EXCEPT ![w] = Called(wk[w], "Summarization failed")]
          /\ UNCHANGED <<sums, pstat>>
  /\ UNCHANGED <<exists, descLen, fullLen, extractionMethod, inWindow, rows,
                 embs, q, budget, report>>

\* StopAfterAttempt giving up one attempt later
StopAfterAttemptLate(n) == n > MaxAttempts

\* @retry(stop=stop_after_attempt(3)): no further attempt after the n-th
StopAfterAttempt(n) == n >= MaxAttempts

\* summarizer.summarize, one attempt of _call_gemini per step: the call
\* returns a text (ok), from which summarize builds a result that the
\* handler inserts and commits, or it raises and is retried until the stop
\* condition, after which summarize catches the error and returns None
SAttempt(w, ok) ==
  /\ wk[w].pc = "s_summarize"
  /\ LET i == wk[w].item
         n == wk[w].tried + 1
         job == [wk[w] EXCEPT !.tried = n]
     IN  IF ok
           THEN \E len \in SummaryLens :
                  IF UniqueViolation(sums, i)
                    THEN /\ wk' = [wk EXCEPT ![w] = Called(job, "exception")]
                         /\ UNCHANGED <<sums, pstat>>
                    ELSE /\ sums' = [sums EXCEPT ![i] =
                                       Append(@, [len |-> len])]
                         /\ pstat' = [pstat EXCEPT ![i] = SUMMARIZING]
                         /\ wk' = [wk EXCEPT ![w] =
                                     [job EXCEPT !.pc = "s_enqueue",
                                                 !.calls = 1]]
           ELSE /\ wk' = [wk EXCEPT ![w] =
                            IF StopAfterAttempt(n)
                              THEN Called(job, "Summarization failed")
                              ELSE job]
                /\ UNCHANGED <<sums, pstat>>
  /\ UNCHANGED <<exists, descLen, fullLen, extractionMethod, inWindow, rows,
                 embs, q, budget, report>>

\* enqueue_embedding, then the Pending/embedding status write
SEnqueue(w) ==
  /\ wk[w].pc = "s_enqueue"
  /\ \E up \in BOOLEAN :
       /\ q' = Enqueued(EMBEDDING, wk[w].item, up)
       /\ wk' = [wk EXCEPT ![w] =
                   UpsCall(AfterEnqueue(wk[w], up), PENDING, EMBEDDING,
                           None, "ret_true")]
  /\ UNCHANGED <<dbVars, budget, report>>

\* -------------------------------------------------------- Embedding handler

\* text_to_embed = summary_obj.summary if summary_obj else
\*                 (article.full_content or article.content)
EmbedTextLen(i) == IF sums[i] # <<>> THEN sums[i][1].len ELSE ContentLen(i)

\* MLoad without the check for an existing embedding
MLoadNoCheck(w) ==
  /\ wk[w].pc = "m_load"
  /\ LET i == wk[w].item IN
       IF ~exists[i]
         THEN CallUps(w, FAILED, None, "Article not found", "ret_false")
         ELSE IF EmbedTextLen(i) < MinEmbedInput
           THEN CallUps(w, FAILED, None, "Insufficient text", "ret_false")
           ELSE wk' = [wk EXCEPT ![w].pc = "m_embed"]
  /\ UNCHANGED <<dbVars, q, budget, report>>

\* article, existing_embedding and text_to_embed are loaded; the branches
\* that need no embedder
MLoad(w) ==
  /\ wk[w].pc = "m_load"
  /\ LET i == wk[w].item IN
       IF ~exists[i]
         THEN CallUps(w, FAILED, None, "Article not found", "ret_false")
         ELSE IF embs[i] # <<>>
           THEN wk' = [wk EXCEPT ![w] =
                         UpsCall([wk[w] EXCEPT !.had = TRUE], COMPLETED,
                                 None, None, "ret_true")]
           ELSE IF EmbedTextLen(i) < MinEmbedInput
             THEN CallUps(w, FAILED, None, "Insufficient text", "ret_false")
             ELSE wk' = [wk EXCEPT ![w].pc = "m_embed"]
  /\ UNCHANGED <<dbVars, q, budget, report>>

\* MEmbed with the INSERT of the vector left out
MEmbedNoInsert(w) ==
  /\ wk[w].pc = "m_embed"
  /\ LET i == wk[w].item IN
       \/ IF UniqueViolation(embs, i)
            THEN /\ wk' = [wk EXCEPT ![w] = Called(wk[w], "exception")]
                 /\ UNCHANGED <<embs, pstat>>
            ELSE /\ embs' = embs
                 /\ pstat' = [pstat EXCEPT ![i] = COMPLETED]
                 /\ wk' = [wk EXCEPT ![w] =
                             UpsCall([wk[w] EXCEPT !.calls = 1], COMPLETED,
                                     None, None, "m_cache")]
       \/ /\ wk' = [wk EXCEPT ![w] =
                       Called(wk[w], "Embedding generation failed")]
          /\ UNCHANGED <<embs, pstat>>
  /\ UNCHANGED <<exists, descLen, fullLen, extractionMethod, inWindow, rows,
                 sums, q, budget, report>>

\* generator.generate_embedding returns a vector or None; the vector is
\* inserted and committed, then Completed is recorded
MEmbed(w) ==
  /\ wk[w].pc = "m_embed"
  /\ LET i == wk[w].item IN
       \/ IF UniqueViolation(embs, i)
            THEN /\ wk' = [wk EXCEPT ![w] = Called(wk[w], "exception")]
                 /\ UNCHANGED <<embs, pstat>>
            ELSE /\ embs' = [embs EXCEPT ![i] = Append(@, [dim |-> 384])]
                 /\ pstat' = [pstat EXCEPT ![i] = COMPLETED]
                 /\ wk' = [wk EXCEPT ![w] =
                             UpsCall([wk[w] EXCEPT !.calls = 1], COMPLETED,
                                     None, None, "m_cache")]
       \/ /\ wk' = [wk EXCEPT ![w] =
                       Called(wk[w], "Embedding generation failed")]
          /\ UNCHANGED <<embs, pstat>>
  /\ UNCHANGED <<exists, descLen, fullLen, extractionMethod, inWindow, rows,
                 sums, q, budget, report>>

\* cache = get_redis_client(); cache.delete(...): the delete swallows its
\* errors, RedisClient() raises when it cannot reach Redis
MCache(w) ==
  /\ wk[w].pc = "m_cache"
  /\ \/ wk' = [wk EXCEPT ![w] = Leave([wk[w] EXCEPT !.inval = 1], "ret_true")]
     \/ Raise(w)
  /\ UNCHANGED <<dbVars, q, budget, report>>

\* the queue backend kills a job that exceeds its timeout: no handler code
\* runs any more
KillJob(w) ==
  /\ wk[w].pc # "idle"
  /\ wk' = [wk EXCEPT ![w] = Idle]
  /\ UNCHANGED <<dbVars, q, budget, report>>

\* ------------------------------------------------------------- Orchestrator

RECURSIVE SumOver(_, _)
SumOver(f, S) ==
  IF S = {} THEN 0
  ELSE LET x == CHOOSE y \in S : TRUE IN f[x] + SumOver(f, S \ {x})

\* jobs waiting on the three queues plus jobs being executed
Queued(i) == q[EXTRACTION][i] + q[SUMMARIZATION][i] + q[EMBEDDING][i]
Executing(i) == Cardinality({w \in Workers : wk[w].pc # "idle" /\ wk[w].item = i})
InFlight(i) == Queued(i) + Executing(i)

\* process_articles_batch(article_ids): process_article for every id of the
\* list, which enqueues Extraction and nothing else; cnt[i] is the number
\* of times i is in the list, up whether Redis is reachable; the caller
\* keeps no return value (see Reported for the callers that do)
ProcessBatch(cnt, up) ==
  /\ budget >= SumOver(cnt, Items)
  /\ budget' = budget - SumOver(cnt, Items)
  /\ q' = [q EXCEPT ![EXTRACTION] =
             [i \in Items |-> IF up THEN @[i] + cnt[i] ELSE @[i]]]
  /\ UNCHANGED <<dbVars, wk, report>>

One(i) == [j \in Items |-> IF j = i THEN 1 ELSE 0]
Each(ids) == [j \in Items |-> IF j \in ids THEN 1 ELSE 0]

\* process_article(article_id)
Submit(i, up) == ProcessBatch(One(i), up)

\* process_articles_batch(article_ids)
SubmitBatch(ids, up) == ProcessBatch(Each(ids), up)

\* NewArticles without the filter on processing_status
NewArticlesAnyStatus == {i \in Items : exists[i] /\ inWindow[i]}

\* Article.scraped_at >= cutoff_time and
\* Article.processing_status.in_(['pending', 'failed'])
NewArticles ==
  {i \in Items : exists[i] /\ inWindow[i] /\ pstat[i] \in {PENDING, FAILED}}

\* process_new_articles(hours_back)
SubmitNew(up) == ProcessBatch(Each(NewArticles), up)

\* RetryEligible with the comparison off by one
RetryEligibleInclusive(row, maxRetries) ==
  row.status = FAILED /\ row.rc <= maxRetries

\* ProcessingQueue.status == FAILED and ProcessingQueue.retry_count < max_retries
RetryEligible(row, maxRetries) ==
  row.status = FAILED /\ row.rc < maxRetries

\* article_ids = [entry.article_id for entry in failed_entries]
FailedEntries(maxRetries) ==
  [i \in Items |->
     Cardinality({n \in 1..Len(rows[i]) : RetryEligible(rows[i][n], maxRetries)})]

\* RetryFailed resuming every entry on the queue of its current_stage
RetryFailedResume(maxRetries, up) ==
  /\ budget >= SumOver(FailedEntries(maxRetries), Items)
  /\ budget' = budget - SumOver(FailedEntries(maxRetries), Items)
  /\ q' = [s \in Stages |-> [i \in Items |->
             IF up
               THEN q[s][i] + Cardinality({n \in RowIds(i) :
                      /\ RetryEligible(rows[i][n], maxRetries)
                      /\ rows[i][n].stage = s})
               ELSE q[s][i]]]
  /\ UNCHANGED <<dbVars, wk, report>>

\* retry_failed_articles(max_retries)
RetryFailed(maxRetries, up) == ProcessBatch(FailedEntries(maxRetries), up)

\* ------------------------------------- Orchestrator, with the values returned

\* enqueue_extraction: job.id, or None when the enqueue raised
EnqueueExtraction(up) == IF up THEN "job" ELSE None

\* process_article: True if job_id else False
ProcessArticleResult(jobId) == jobId # None

\* BatchLoop counting the enqueued ids only
RECURSIVE BatchLoopEnqueuedOnly(_, _)
BatchLoopEnqueuedOnly(results, outs) ==
  IF outs = <<>> THEN results
  ELSE BatchLoopEnqueuedOnly(
         IF ProcessArticleResult(EnqueueExtraction(Head(outs)))
           THEN [results EXCEPT !.enqueued = @ + 1]
           ELSE results,
         Tail(outs))

\* for article_id in article_ids: results['enqueued'] += 1 or
\* results['failed'] += 1; outs[k] tells whether Redis took the k-th job
RECURSIVE BatchLoop(_, _)
BatchLoop(results, outs) ==
  IF outs = <<>> THEN results
  ELSE BatchLoop(
         IF ProcessArticleResult(EnqueueExtraction(Head(outs)))
           THEN [results EXCEPT !.enqueued = @ + 1]
           ELSE [results EXCEPT !.failed = @ + 1],
         Tail(outs))

\* results = {'enqueued': 0, 'failed': 0}, the loop, return results
BatchResults(outs) == BatchLoop([enqueued |-> 0, failed |-> 0], outs)

\* results['found'] = len(article_ids)
WithFound(results, n) ==
  [enqueued |-> results.enqueued, failed |-> results.failed, found |-> n]

\* the Extraction queue after the calls of process_article for ids
QueueAfterBatch(ids, outs) ==
  [q EXCEPT ![EXTRACTION] =
     [i \in Items |->
        @[i] + Cardinality({k \in 1..Len(ids) : ids[k] = i /\ outs[k]})]]

\* the calls of process_article for ids and what the caller gets back
Reported(op, ids, outs, ret) ==
  /\ budget >= Len(ids)
  /\ budget' = budget - Len(ids)
  /\ q' = QueueAfterBatch(ids, outs)
  /\ report' = [op |-> op, ret |-> ret]
  /\ UNCHANGED <<dbVars, wk>>

\* process_article(article_id), returning whether a job id came back
ProcessArticle(i, up) ==
  Reported("process_article", <<i>>, <<up>>,
           ProcessArticleResult(EnqueueExtraction(up)))

\* process_articles_batch(article_ids), returning results
ProcessArticlesBatch(ids, outs) ==
  Reported("process_articles_batch", ids, outs, BatchResults(outs))

\* a list that holds every item i cnt[i] times
RECURSIVE Listed(_, _)
Listed(cnt, S) ==
  IF S = {} THEN <<>>
  ELSE LET x == CHOOSE y \in S : TRUE
       IN  [k \in 1..cnt[x] |-> x] \o Listed(cnt, S \ {x})

\* process_new_articles(hours_back), returning its statistics
ProcessNewArticles(outs) ==
  LET ids == Listed(Each(NewArticles), Items)
  IN  /\ Len(outs) = Len(ids)
      /\ Reported("process_new_articles", ids, outs,
                  IF ids = <<>>
                    THEN [enqueued |-> 0, failed |-> 0, found |-> 0]
                    ELSE WithFound(BatchResults(outs), Len(ids)))

\* retry_failed_articles(max_retries), returning its statistics
RetryFailedArticles(maxRetries, outs) ==
  LET ids == Listed(FailedEntries(maxRetries), Items)
  IN  /\ Len(outs) = Len(ids)
      /\ Reported("retry_failed_articles", ids, outs,
                  IF ids = <<>>
                    THEN [retried |-> 0, found |-> 0]
                    ELSE WithFound(BatchResults(outs), Len(ids)))

\* ------------------------------------------------------------ specification

WorkerStep(w) ==
  \/ \E s \in Stages, i \in Items : Dequeue(w, s, i)
  \/ UpsRead(w)
  \/ UpsCommit(w)
  \/ ELoad(w)
  \/ ESkip(w)
  \/ \E len \in ExtractLens : EExtract(w, len)
  \/ EEnqueue(w)
  \/ SLoad(w)
  \/ SSkip(w)
  \/ SSummarize(w)
  \/ SEnqueue(w)
  \/ MLoad(w)
  \/ MEmbed(w)
  \/ MCache(w)
  \/ Return(w)
  \/ KillJob(w)

OrchestratorStep ==
  \/ \E i \in Items, up \in BOOLEAN : Submit(i, up)
  \/ \E ids \in SUBSET Items, up \in BOOLEAN : SubmitBatch(ids, up)
  \/ \E up \in BOOLEAN : SubmitNew(up)
  \/ \E m \in RetryLimits, up \in BOOLEAN : RetryFailed(m, up)

Next ==
  \/ \E w \in Workers : WorkerStep(w)
  \/ OrchestratorStep

Spec == Init /\ [][Next]_vars

\* one worker process, more calls of the orchestrator
InitSeq == InitStores /\ budget = MaxSeqSubmits

NextSeq ==
  \/ WorkerStep(1)
  \/ EExtract(1, MinSummaryInput)
  \/ OrchestratorStep

SpecSeq == InitSeq /\ [][NextSeq]_vars

\* every extraction comes back empty (the site is unreachable): the jobs of
\* the Extraction queue and nothing else, concurrently
InitFail == InitStores /\ budget = MaxFailSubmits

NextFail ==
  \/ \E w \in Workers :
       \/ \E i \in Items : Dequeue(w, EXTRACTION, i)
       \/ UpsRead(w)
       \/ UpsCommit(w)
       \/ ELoad(w)
       \/ EExtract(w, 0)
       \/ Return(w)
       \/ KillJob(w)
  \/ OrchestratorStep

SpecFail == InitFail /\ [][NextFail]_vars

\* the Extraction stage alone with Redis reachable: repeated submissions of
\* an article whose extraction returns nothing, 100 or 101 characters
InitExtract == InitStores /\ budget = MaxExtractSubmits

NextExtract ==
  \/ \E w \in Workers :
       \/ \E i \in Items : Dequeue(w, EXTRACTION, i)
       \/ UpsRead(w)
       \/ UpsCommit(w)
       \/ ELoad(w)
       \/ ESkip(w) /\ q' # q
       \/ \E len \in {0, MinExtractedLen, MinExtractedLen + 1} :
            EExtract(w, len)
       \/ EEnqueue(w) /\ q' # q
       \/ Return(w)
  \/ \E i \in Items : Submit(i, TRUE)

SpecExtract == InitExtract /\ [][NextExtract]_vars

\* one submission of every article, every collaborator returns a usable
\* result, Redis is reachable and no job runs into its timeout; every worker
\* process keeps running
InitLive ==
  /\ InitStores
  /\ \A i \in Items : exists[i]
  /\ budget = NumItems

WorkerLive(w) ==
  \/ \E s \in Stages, i \in Items : Dequeue(w, s, i)
  \/ UpsRead(w)
  \/ UpsCommit(w)
  \/ ELoad(w)
  \/ \E len \in {MinSummaryInput, MinExtractedLen + 1} : EExtract(w, len)
  \/ EEnqueue(w) /\ q' # q
  \/ SLoad(w)
  \/ SSummarize(w) /\ \E i \in Items :
                         /\ sums'[i] # sums[i]
                         /\ sums'[i][Len(sums'[i])].len >= MinEmbedInput
  \/ SEnqueue(w) /\ q' # q
  \/ MLoad(w)
  \/ MEmbed(w) /\ embs' # embs
  \/ MCache(w) /\ wk'[w].pc = "ret_true"
  \/ Return(w)

SubmitLive == \E i \in Items : Submit(i, TRUE) /\ q[EXTRACTION][i] = 0

NextLive ==
  \/ \E w \in Workers : WorkerLive(w)
  \/ SubmitLive

\* every article is submitted once, every extraction comes back empty, and
\* from then on retry_failed_articles() with its default max_retries is the
\* only call made
InitRetry == InitStores /\ budget = MaxRetrySubmits

FirstSubmit == budget = MaxRetrySubmits /\ SubmitBatch(Items, TRUE)

NextRetry ==
  \/ \E w \in Workers :
       \/ \E i \in Items : Dequeue(w, EXTRACTION, i)
       \/ UpsRead(w)
       \/ UpsCommit(w)
       \/ ELoad(w)
       \/ EExtract(w, 0)
       \/ Return(w)
  \/ FirstSubmit
  \/ \E up \in BOOLEAN : RetryFailed(DefaultMaxRetries, up)

SpecRetry == InitRetry /\ [][NextRetry]_vars

\* the orchestrator called by a caller that keeps what it returns, while
\* two workers run Extraction jobs whose extraction comes back empty
InitOrch == InitStores /\ budget = MaxOrchSubmits

\* the outcome of each enqueue of a call that makes n of them
Outcomes(n) == [1..n -> BOOLEAN]

\* the lists of ids a caller passes to process_articles_batch
IdLists == UNION {[1..n -> Items] : n \in 0..MaxBatchLen}

NextOrch ==
  \/ \E w \in Workers :
       \/ \E i \in Items : Dequeue(w, EXTRACTION, i)
       \/ UpsRead(w)
       \/ UpsCommit(w)
       \/ ELoad(w)
       \/ EExtract(w, 0)
       \/ Return(w)
  \/ \E i \in Items, up \in BOOLEAN : ProcessArticle(i, up)
  \/ \E ids \in IdLists : \E outs \in Outcomes(Len(ids)) :
       ProcessArticlesBatch(ids, outs)
  \/ \E n \in 0..NumItems : \E outs \in Outcomes(n) :
       ProcessNewArticles(outs)
  \/ \E m \in RetryLimits : \E n \in 0..(NumItems * NumWorkers) :
       \E outs \in Outcomes(n) : RetryFailedArticles(m, outs)

SpecOrch == InitOrch /\ [][NextOrch]_vars

\* one worker process; the orchestrator is called through the two
\* operations that select the articles themselves, process_new_articles and
\* retry_failed_articles
NextSelect ==
  \/ WorkerStep(1)
  \/ \E up \in BOOLEAN : SubmitNew(up)
  \/ \E m \in RetryLimits, up \in BOOLEAN : RetryFailed(m, up)

SpecSelect == InitSeq /\ [][NextSelect]_vars

\* the Extraction stage alone for web articles, with the two methods of the
\* extractor each raising, finding no text or finding a text
NextArticle ==
  \/ \E w \in Workers :
       \/ \E i \in Items : Dequeue(w, EXTRACTION, i)
       \/ UpsRead(w)
       \/ UpsCommit(w)
       \/ ELoad(w)
       \/ ESkip(w)
       \/ \E primary \in MethodOutcomes, fallback \in MethodOutcomes :
            EExtractArticle(w, primary, fallback)
       \/ EEnqueue(w)
       \/ Return(w)
  \/ \E i \in Items : Submit(i, TRUE)

SpecArticle == InitExtract /\ [][NextArticle]_vars

InitSummarize == InitStores /\ budget = MaxSubmits

\* the Extraction and Summarization stages with Redis reachable, every
\* attempt of the model call a step of its own
NextSummarize ==
  \/ \E w \in Workers :
       \/ \E s \in {EXTRACTION, SUMMARIZATION}, i \in Items : Dequeue(w, s, i)
       \/ UpsRead(w)
       \/ UpsCommit(w)
       \/ ELoad(w)
       \/ ESkip(w) /\ q' # q
       \/ EExtract(w, MinExtractedLen + 1)
       \/ EEnqueue(w) /\ q' # q
       \/ SLoad(w)
       \/ SSkip(w) /\ q' # q
       \/ \E ok \in BOOLEAN : SAttempt(w, ok)
       \/ SEnqueue(w) /\ q' # q
       \/ Return(w)
  \/ \E i \in Items : Submit(i, TRUE)

SpecSummarize == InitSummarize /\ [][NextSummarize]_vars

SpecLive ==
  /\ InitLive
  /\ [][NextLive]_vars
  /\ \A w \in Workers : WF_vars(WorkerLive(w))
  /\ WF_vars(SubmitLive)

\* ------------------------------------------------------------------ claims

HasSummary(i) == sums[i] # <<>>
HasEmbedding(i) == embs[i] # <<>>

\* C1: in every reachable state, an item whose ProcessingRecord has status
\* Completed has both a Summary and an Embedding.
C1_CompletedHasBoth ==
  \A i \in Items : \A n \in RowIds(i) :
    rows[i][n].status = COMPLETED => HasSummary(i) /\ HasEmbedding(i)

C1_Witness ==
  \E i \in Items : \E n \in RowIds(i) : rows[i][n].status = COMPLETED

\* C2: in every reachable state, an item whose ProcessingRecord has a status
\* other than Completed has at most one of Summary and Embedding.
C2_NotCompletedAtMostOne ==
  \A i \in Items : \A n \in RowIds(i) :
    rows[i][n].status # COMPLETED => ~(HasSummary(i) /\ HasEmbedding(i))

\* C3: once the status of a ProcessingRecord is Completed, no step changes it.
C3_CompletedTerminal ==
  [][\A i \in Items : \A n \in RowIds(i) :
       rows[i][n].status = COMPLETED => rows'[i][n].status = COMPLETED]_vars

\* C4: at most one stage job per item is queued or executing.
C4_OneInFlight == \A i \in Items : InFlight(i) <= 1

\* C5: there is never more than one ProcessingRecord for the same item.
C5_OneRecord == \A i \in Items : Len(rows[i]) <= 1

\* C6: every item has at most one Summary and at most one Embedding, and a
\* stored Summary or Embedding is never replaced or rewritten, also when two
\* handlers of the same item both passed the existence check.
C6_WriteOnce ==
  [][\A i \in Items :
       /\ Len(sums'[i]) <= 1
       /\ Len(embs'[i]) <= 1
       /\ HasSummary(i) => sums'[i] = sums[i]
       /\ HasEmbedding(i) => embs'[i] = embs[i]]_vars

\* a handler that passed the existence check is about to insert although
\* another invocation has stored a Summary in the meantime
C6_Witness ==
  \E w \in Workers :
    /\ wk[w].pc = "s_summarize"
    /\ HasSummary(wk[w].item)

\* C7: retry_count never decreases, and every step that increases it is a
\* recordStatus call that writes Failed.
C7_RetryCountMonotone ==
  [][\A i \in Items : \A n \in RowIds(i) :
       /\ rows'[i][n].rc >= rows[i][n].rc
       /\ rows'[i][n].rc > rows[i][n].rc =>
            \E w \in Workers : UpsCommit(w) /\ wk[w].st = FAILED]_vars

\* C8: a call of retryFailed(maxRetries) that reaches the queue enqueues a
\* job for exactly the items that have a Failed record with
\* retry_count < maxRetries at the time of the call.
C8_RetryExactlyEligible ==
  [][\A m \in RetryLimits :
       RetryFailed(m, TRUE) =>
         \A i \in Items :
           q'[EXTRACTION][i] > q[EXTRACTION][i] <=>
             \E n \in RowIds(i) :
               rows[i][n].status = FAILED /\ rows[i][n].rc < m]_vars

\* an item that failed twice has been submitted again
C8_Witness ==
  \E i \in Items : \E n \in RowIds(i) :
    /\ rows[i][n].status = FAILED
    /\ rows[i][n].rc = DefaultMaxRetries - 1
    /\ q[EXTRACTION][i] > 0

\* C9: once a record is Failed with retry_count >= maxRetries, submitNew and
\* retryFailed(maxRetries) enqueue no job for the item, and its status and
\* retry_count never change.
C9_ExhaustedTerminal ==
  [][\A m \in RetryLimits : \A i \in Items : \A n \in RowIds(i) :
       (rows[i][n].status = FAILED /\ rows[i][n].rc >= m) =>
         /\ ((\E up \in BOOLEAN : SubmitNew(up) \/ RetryFailed(m, up))
               => q'[EXTRACTION][i] = q[EXTRACTION][i])
         /\ rows'[i][n].status = FAILED
         /\ rows'[i][n].rc = rows[i][n].rc]_vars

\* C10: a call of the orchestrator puts jobs on the Extraction queue only.
C10_OrchestratorEnqueuesExtraction ==
  [][\/ /\ q'[SUMMARIZATION] = q[SUMMARIZATION]
        /\ q'[EMBEDDING] = q[EMBEDDING]
     \/ ~OrchestratorStep]_vars

\* an item that failed in a later stage is waiting on the Extraction queue
C10_Witness ==
  \E i \in Items : \E n \in RowIds(i) :
    /\ rows[i][n].status = FAILED
    /\ rows[i][n].stage \in {SUMMARIZATION, EMBEDDING}
    /\ q[EXTRACTION][i] > 0

\* the processing_queue rows of the item whose job worker w executes
JobRows(w) == rows[wk[w].item]

\* C11: a handler invocation that records Failed and returns False has made
\* no enqueue call, successful or not, during that invocation.
C11_FailureEnqueuesNothing ==
  \A w \in Workers :
    (wk[w].pc = "ret_false" /\ wk[w].st = FAILED) =>
      wk[w].enq = 0 /\ wk[w].qfail = 0

\* a handler returns False after its collaborator came back empty
C11_Witness ==
  \E w \in Workers :
    /\ wk[w].pc = "ret_false"
    /\ wk[w].st = FAILED
    /\ wk[w].calls = 1

\* C12: whenever a handler returns False after an error, the item's record
\* has status Failed and carries the reason of that error.
C12_FailureIsRecorded ==
  \A w \in Workers :
    wk[w].pc = "ret_false" =>
      \E n \in 1..Len(JobRows(w)) :
        /\ JobRows(w)[n].status = FAILED
        /\ JobRows(w)[n].err = wk[w].er

\* C13: the status write of a failing handler invocation raises the item's
\* retry_count by exactly 1 and stores the reason as error_message.
C13_FailureCountsOnce ==
  [][\A w \in Workers :
       (UpsCommit(w) /\ wk[w].st = FAILED) =>
         \E n \in 1..Len(JobRows(w)) :
           /\ rows'[wk[w].item][n].status = FAILED
           /\ rows'[wk[w].item][n].err = wk[w].er
           /\ rows'[wk[w].item][n].rc = JobRows(w)[n].rc + 1]_vars

\* C14: after one submission with every collaborator call and every enqueue
\* succeeding and no job killed, the item's record eventually has status
\* Completed and keeps it forever.
C14_EventuallyCompleted ==
  <>[](\A i \in Items :
         /\ rows[i] # <<>>
         /\ \A n \in RowIds(i) : rows[i][n].status = COMPLETED)

\* worker w executes the Extraction handler for an item on which it found
\* extracted text, and has returned True
SkippedExtraction(w) ==
  /\ wk[w].h = EXTRACTION
  /\ wk[w].pc = "ret_true"
  /\ wk[w].had

Loads(w, pc) ==
  /\ wk[w].pc = pc
  /\ wk'[w].pc \notin {pc, "idle"}
  /\ exists[wk[w].item]

\* C16: the Summarization handler takes the short-circuit whenever a Summary
\* exists, whatever the length of the text; an invocation that takes it never
\* calls the summarizer, leaves the Summary as it is, records
\* Pending/embedding, makes one enqueue call, on the Embedding queue, and
\* returns True.
C16_SummaryShortCircuit ==
  [][\A w \in Workers :
       /\ Loads(w, "s_load") => (wk'[w].had <=> HasSummary(wk[w].item))
       /\ (wk[w].h = SUMMARIZATION /\ wk[w].had /\ wk'[w].pc # "idle") =>
            /\ sums' = sums
            /\ wk'[w].calls = 0
            /\ q'[SUMMARIZATION] = q[SUMMARIZATION]
            /\ q'[EMBEDDING][wk[w].item] - q[EMBEDDING][wk[w].item]
                 = wk'[w].enq - wk[w].enq
       /\ (wk'[w].h = SUMMARIZATION /\ wk'[w].had /\ IsReturn(wk'[w].pc)) =>
            /\ wk'[w].pc = "ret_true"
            /\ wk'[w].enq + wk'[w].qfail = 1
            /\ wk'[w].st = PENDING
            /\ wk'[w].sg = EMBEDDING
            /\ \A n \in 1..Len(rows'[wk'[w].item]) :
                 /\ rows'[wk'[w].item][n].status = PENDING
                 /\ rows'[wk'[w].item][n].stage = EMBEDDING]_vars

\* the short-circuit was taken for an item whose text is shorter than 50
C16_Witness ==
  \E w \in Workers :
    /\ wk[w].h = SUMMARIZATION
    /\ wk[w].had
    /\ wk[w].pc = "ret_true"
    /\ wk[w].enq = 1
    /\ fullLen[wk[w].item] = 49

\* C17: the Embedding handler takes the short-circuit whenever an Embedding
\* exists; an invocation that takes it never calls the embedder, leaves the
\* Embedding as it is, makes no enqueue call, records Completed and returns
\* True.
C17_EmbeddingShortCircuit ==
  [][\A w \in Workers :
       /\ Loads(w, "m_load") => (wk'[w].had <=> HasEmbedding(wk[w].item))
       /\ (wk[w].h = EMBEDDING /\ wk[w].had /\ wk'[w].pc # "idle") =>
            /\ embs' = embs
            /\ sums' = sums
            /\ wk'[w].calls = 0
            /\ q'[SUMMARIZATION] = q[SUMMARIZATION]
            /\ q'[EMBEDDING] = q[EMBEDDING]
       /\ (wk'[w].h = EMBEDDING /\ wk'[w].had /\ IsReturn(wk'[w].pc)) =>
            /\ wk'[w].pc = "ret_true"
            /\ wk'[w].enq = 0
            /\ wk'[w].qfail = 0
            /\ wk'[w].st = COMPLETED
            /\ \A n \in 1..Len(rows'[wk'[w].item]) :
                 rows'[wk'[w].item][n].status = COMPLETED]_vars

\* the Embedding handler has returned from its short-circuit
C17_Witness ==
  \E w \in Workers :
    /\ wk[w].h = EMBEDDING
    /\ wk[w].had
    /\ wk[w].pc = "ret_true"

\* C18: when the Extraction handler has called the extractor, it fails only
\* with an empty result; when it returns True the text and the method tag
\* are stored, the record is Pending with current_stage summarization and
\* one enqueue call was made, whose job (if Redis took it) is on the
\* Summarization queue.
C18_ExtractionSuccess ==
  \A w \in Workers :
    (wk[w].h = EXTRACTION /\ ~wk[w].had /\ wk[w].calls = 1) =>
      /\ wk[w].pc = "ret_false" => wk[w].er = "Content extraction failed"
      /\ wk[w].pc = "ret_true" =>
           /\ fullLen[wk[w].item] > 0
           /\ extractionMethod[wk[w].item] = Method
           /\ wk[w].enq + wk[w].qfail = 1
           /\ q[SUMMARIZATION][wk[w].item] >= wk[w].enq
           /\ JobRows(w) # <<>>
           /\ \A n \in 1..Len(JobRows(w)) :
                /\ JobRows(w)[n].status = PENDING
                /\ JobRows(w)[n].stage = SUMMARIZATION

\* the handler extracted text for an item that had none and has returned
C18_Witness ==
  \E w \in Workers :
    /\ wk[w].h = EXTRACTION
    /\ ~wk[w].had
    /\ wk[w].calls = 1
    /\ wk[w].pc = "ret_true"
    /\ wk[w].enq = 1
    /\ JobRows(w)[1].rc = 0

\* C19: for an existing item without a Summary, the Summarization handler
\* on content of length 49 records Failed with 'Insufficient content' and
\* returns False without calling the summarizer, and on content of length
\* 50 it calls the summarizer; the content is the extracted text if there
\* is any, else the description.
C19_ContentThreshold ==
  [][\A w \in Workers :
       /\ (Loads(w, "s_load") /\ ~HasSummary(wk[w].item)) =>
            LET i == wk[w].item
                len == IF fullLen[i] > 0 THEN fullLen[i] ELSE descLen[i]
            IN  /\ len = 49 =>
                     /\ wk'[w].st = FAILED
                     /\ wk'[w].er = "Insufficient content"
                     /\ wk'[w].k = "ret_false"
                /\ len = 50 => wk'[w].pc = "s_summarize"
       /\ (wk'[w].er = "Insufficient content" /\ IsReturn(wk'[w].pc)) =>
            /\ wk'[w].pc = "ret_false"
            /\ wk'[w].calls = 0
            /\ \A n \in 1..Len(rows'[wk'[w].item]) :
                 rows'[wk'[w].item][n].status = FAILED]_vars

\* the summarizer is about to be called on a text of exactly 50 characters
C19_Witness ==
  \E w \in Workers :
    /\ wk[w].pc = "s_summarize"
    /\ fullLen[wk[w].item] = 50

\* C20: an invocation of the Embedding handler that has recorded Completed
\* and returns True has called the cache invalidation.
C20_CompletedInvalidates ==
  \A w \in Workers :
    (wk[w].h = EMBEDDING /\ wk[w].pc = "ret_true" /\ wk[w].st = COMPLETED) =>
      wk[w].inval = 1

\* the stage a handler chains to
NextStage(s) == IF s = EXTRACTION THEN SUMMARIZATION ELSE EMBEDDING

\* C21: an enqueue call of a chaining handler that returns None adds no job
\* to any queue, and the handler still returns True with the record Pending
\* at the next stage, which retryFailed does not select.
C21_EnqueueFailureOrphans ==
  [][\A w \in Workers :
       /\ wk'[w].qfail > wk[w].qfail => q' = q
       /\ (IsReturn(wk'[w].pc) /\ wk'[w].qfail > 0) =>
            /\ wk'[w].pc = "ret_true"
            /\ wk'[w].qfail = 1
            /\ wk'[w].enq = 0
            /\ rows'[wk'[w].item] # <<>>
            /\ \A n \in 1..Len(rows'[wk'[w].item]) :
                 /\ rows'[wk'[w].item][n].status = PENDING
                 /\ rows'[wk'[w].item][n].stage = NextStage(wk'[w].h)
                 /\ \A m \in RetryLimits :
                      ~RetryEligible(rows'[wk'[w].item][n], m)]_vars

\* the handler stored its result, could not enqueue the next stage and has
\* returned; no job for the item is left on any queue
C21_Witness ==
  \E w \in Workers :
    /\ wk[w].pc = "ret_true"
    /\ wk[w].calls = 1
    /\ wk[w].qfail = 1
    /\ Queued(wk[w].item) = 0
    /\ JobRows(w)[1].status = PENDING

\* C22: whenever an Extraction job of an item is queued the item has a
\* ProcessingRecord, and no step removes a ProcessingRecord.
C22_RecordFromFirstEnqueue ==
  [][\A i \in Items :
       /\ q'[EXTRACTION][i] > 0 => rows'[i] # <<>>
       /\ Len(rows'[i]) >= Len(rows[i])]_vars

\* C23: the items submitNew selects, and submits as a batch, are exactly the
\* in-window items whose ProcessingRecord is Pending or Failed (an item that
\* has no record yet counts as Pending).
C23_SubmitNewByRecordStatus ==
  \A i \in Items :
    (exists[i] /\ inWindow[i]) =>
      (i \in NewArticles <=>
         \/ rows[i] = <<>>
         \/ \E n \in RowIds(i) : rows[i][n].status \in {PENDING, FAILED})

\* a call of the orchestrator returns to a caller that keeps the result
Returns(op) ==
  /\ report'.op = op
  /\ report' # report \/ budget' # budget

\* jobs the step adds to the Extraction queue
AddedJobs == SumOver([i \in Items |-> q'[EXTRACTION][i] - q[EXTRACTION][i]],
                     Items)

\* C24: submit returns True exactly when its enqueue added a job and False
\* otherwise; the counts submitBatch returns add up to the number of ids it
\* was given, enqueued being the number of jobs added; the report of
\* submitNew satisfies found = enqueued + failed.
C24_ReportsAddUp ==
  [][/\ Returns("process_article") =>
          /\ report'.ret \in BOOLEAN
          /\ report'.ret <=> AddedJobs = 1
          /\ ~report'.ret <=> q' = q
     /\ Returns("process_articles_batch") =>
          /\ report'.ret.enqueued + report'.ret.failed = budget - budget'
          /\ report'.ret.enqueued = AddedJobs
     /\ Returns("process_new_articles") =>
          /\ report'.ret.found = Cardinality(NewArticles)
          /\ report'.ret.found = report'.ret.enqueued + report'.ret.failed
          /\ report'.ret.enqueued = AddedJobs]_vars

\* a batch of two ids of which Redis took one job and refused the other
C24_Witness ==
  /\ report.op = "process_articles_batch"
  /\ report.ret.enqueued = 1
  /\ report.ret.failed = 1

\* C25: the report of retryFailed(maxRetries) has the fields found and
\* retried, found being the number of Failed records with
\* retry_count < maxRetries and retried the number of those re-submitted.
C25_RetryReport ==
  [][\A m \in RetryLimits :
       (\E n \in 0..(NumItems * NumWorkers) : \E outs \in Outcomes(n) :
          RetryFailedArticles(m, outs)) =>
         /\ {"found", "retried"} \subseteq DOMAIN report'.ret
         /\ report'.ret.found = SumOver(FailedEntries(m), Items)
         /\ report'.ret.retried = AddedJobs]_vars

\* C26: recordStatus on an existing record sets status, changes
\* current_stage only when a stage is given and changes error_message and
\* retry_count (by +1) only when an error is given; on an absent record it
\* creates the record with the given status and stage, stores the given
\* error and counts it in retry_count.
C26_RecordStatusEffect ==
  [][\A w \in Workers :
       UpsCommit(w) =>
         LET i == wk[w].item
             call == wk[w]
         IN  IF rows[i] # <<>>
               THEN /\ Len(rows'[i]) = Len(rows[i])
                    /\ \A n \in RowIds(i) :
                         rows'[i][n] =
                           [status |-> call.st,
                            stage |-> IF call.sg # None THEN call.sg
                                      ELSE rows[i][n].stage,
                            err |-> IF call.er # None THEN call.er
                                    ELSE rows[i][n].err,
                            rc |-> IF call.er # None THEN rows[i][n].rc + 1
                                   ELSE rows[i][n].rc]
               ELSE rows'[i] =
                      <<[status |-> call.st, stage |-> call.sg,
                         err |-> call.er,
                         rc |-> IF call.er # None THEN 1 ELSE 0]>>]_vars

\* the processing_queue rows of item i are all in an in-progress status and
\* no job of the item is queued or executing
Stuck(i) ==
  /\ InFlight(i) = 0
  /\ rows[i] # <<>>
  /\ \A n \in RowIds(i) :
       rows[i][n].status \in {EXTRACTING, SUMMARIZING, EMBEDDING}

\* C28: once a job was killed after its handler wrote the in-progress
\* status and no other job of the item exists, no step changes the record
\* and no call of retryFailed or submitNew enqueues a job for the item, so
\* that the record keeps the in-progress status for ever.
C28_KilledJobStaysStuck ==
  [][\A i \in Items :
       Stuck(i) =>
         /\ rows'[i] = rows[i]
         /\ (\E up \in BOOLEAN :
               \/ SubmitNew(up)
               \/ \E m \in RetryLimits : RetryFailed(m, up))
              => q'[EXTRACTION][i] = q[EXTRACTION][i]]_vars

\* C29: when a handler that has enqueued the next stage writes its final
\* Pending status, the record still holds the in-progress status the same
\* handler wrote: the next stage's handler has written nothing yet.
C29_HandOffOrdered ==
  [][\A w \in Workers :
       (UpsCommit(w) /\ wk[w].st = PENDING /\ wk[w].k = "ret_true") =>
         \A n \in 1..Len(JobRows(w)) :
           JobRows(w)[n].status = InProgress(wk[w].h)]_vars

\* C27: a handler that is at its return holds no open database session,
\* neither its own nor one of its update_processing_status calls.
C27_SessionsReleased ==
  \A w \in Workers : IsReturn(wk[w].pc) => wk[w].open = 0

\* the handler returns False after an exception was raised while it held
\* its session
C27_Witness ==
  \E w \in Workers :
    /\ wk[w].pc = "ret_false"
    /\ wk[w].er = "exception"
    /\ wk[w].open = 0

\* C30: when failed items are re-submitted by retryFailed(maxRetries) only,
\* with one fixed maxRetries, no retry_count ever exceeds maxRetries.
C30_RetryCountBounded ==
  \A i \in Items : \A n \in RowIds(i) : rows[i][n].rc <= DefaultMaxRetries

\* stage s comes after the stage of handler h
Later(s, h) ==
  \/ h = EXTRACTION /\ s \in {SUMMARIZATION, EMBEDDING}
  \/ h = SUMMARIZATION /\ s = EMBEDDING

\* C31: a step of a handler that adds a job to a queue adds it for the
\* handler's own item on a queue of a later stage; when it adds an Embedding
\* job a Summary of the item is stored, and when it adds a Summarization job
\* the item holds non-empty extracted text.
C31_ChainRespectsStageOrder ==
  [][\A w \in Workers :
       wk'[w] # wk[w] =>
         \A s \in Stages : \A i \in Items :
           q'[s][i] > q[s][i] =>
             /\ i = wk[w].item
             /\ Later(s, wk[w].h)
             /\ s = EMBEDDING => HasSummary(i)
             /\ s = SUMMARIZATION => fullLen[i] > 0]_vars

\* both chaining handlers have enqueued: an Embedding job is queued behind
\* a stored Summary and extracted text
C31_Witness ==
  \E w \in Workers :
    /\ wk[w].h = SUMMARIZATION
    /\ wk[w].enq = 1
    /\ q[EMBEDDING][wk[w].item] > 0
    /\ HasSummary(wk[w].item)
    /\ fullLen[wk[w].item] > 0

\* C32: at its return the last status a handler passed to recordStatus is
\* Failed when it returns False, and Pending with the next stage
\* (Extraction, Summarization) or Completed (Embedding) when it returns
\* True, never its own in-progress status; with one worker process the
\* record of an existing article holds that status.
C32_ReturnAgreesWithLastWrite ==
  \A w \in Workers :
    IsReturn(wk[w].pc) =>
      /\ wk[w].pc = "ret_false" => wk[w].st = FAILED
      /\ wk[w].pc = "ret_true" =>
           IF wk[w].h = EMBEDDING
             THEN wk[w].st = COMPLETED
             ELSE wk[w].st = PENDING /\ wk[w].sg = NextStage(wk[w].h)
      /\ wk[w].st # InProgress(wk[w].h)
      /\ exists[wk[w].item] =>
           /\ JobRows(w) # <<>>
           /\ \A n \in 1..Len(JobRows(w)) : JobRows(w)[n].status = wk[w].st

\* the Embedding handler recorded Completed and then Failed, because the
\* cache client could not be created, and returns False
C32_Witness ==
  \E w \in Workers :
    /\ wk[w].pc = "ret_false"
    /\ wk[w].h = EMBEDDING
    /\ wk[w].calls = 1
    /\ HasEmbedding(wk[w].item)
    /\ JobRows(w)[1].status = FAILED

\* C33: an invocation of the Embedding handler that stored its Embedding
\* and recorded Completed returns True whatever the cache invalidation
\* does, with the record Completed and no error counted.
C33_CacheFailureHarmless ==
  \A w \in Workers :
    (/\ wk[w].h = EMBEDDING
     /\ wk[w].calls = 1
     /\ HasEmbedding(wk[w].item)
     /\ IsReturn(wk[w].pc)) =>
      /\ wk[w].pc = "ret_true"
      /\ wk[w].er = None
      /\ \A n \in 1..Len(JobRows(w)) : JobRows(w)[n].status = COMPLETED

C35_FallbackBeforeFailure ==
  \A w \in Workers :
    wk[w].er = "Content extraction failed" => wk[w].tried = 2

\* C36: one summarize() call makes at most 3 attempts at the model call;
\* it goes on to a further attempt only after a failed one, hands a result
\* to the handler on the first attempt that succeeds, returns None (recorded
\* as Failed 'Summarization failed') exactly when the 3rd attempt has
\* failed, and raises nothing to the handler.
C36_ThreeAttempts ==
  [][\A w \in Workers :
       (wk[w].pc = "s_summarize" /\ wk'[w] # wk[w]) =>
         /\ wk'[w].tried = wk[w].tried + 1
         /\ wk'[w].tried <= MaxAttempts
         /\ wk'[w].pc = "s_summarize" =>
              /\ sums' = sums
              /\ wk'[w].tried < MaxAttempts
         /\ wk'[w].er = "Summarization failed" =>
              /\ sums' = sums
              /\ wk'[w].tried = MaxAttempts
         /\ (sums' = sums /\ ~UniqueViolation(sums, wk[w].item)) =>
              IF wk'[w].tried = MaxAttempts
                THEN /\ wk'[w].er = "Summarization failed"
                     /\ wk'[w].st = FAILED
                     /\ wk'[w].k = "ret_false"
                ELSE wk'[w].pc = "s_summarize"
         /\ wk'[w].er = "exception" => UniqueViolation(sums, wk[w].item)
         /\ wk'[w].pc = "s_enqueue" =>
              Len(sums'[wk[w].item]) = Len(sums[wk[w].item]) + 1]_vars

\* the handler returns False after the third attempt failed
C36_Witness ==
  \E w \in Workers :
    /\ wk[w].pc = "ret_false"
    /\ wk[w].er = "Summarization failed"
    /\ wk[w].tried = MaxAttempts
    /\ ~HasSummary(wk[w].item)

\* C37: a step of a worker that is committing a recordStatus call without
\* an error leaves error_message and retry_count of every record of the
\* item unchanged, so that a record that failed and is Completed later
\* keeps its error_message and its retry_count.
C37_SuccessKeepsFailureHistory ==
  [][\A w \in Workers :
       (wk[w].pc = "ups_commit" /\ wk[w].er = None /\ wk'[w] # wk[w]) =>
         \A n \in 1..Len(JobRows(w)) :
           /\ rows'[wk[w].item][n].err = JobRows(w)[n].err
           /\ rows'[wk[w].item][n].rc = JobRows(w)[n].rc]_vars

\* the item failed once, was retried and is Completed with the error of the
\* failure still stored
C37_Witness ==
  \E i \in Items : \E n \in RowIds(i) :
    /\ rows[i][n].status = COMPLETED
    /\ rows[i][n].rc > 0
    /\ rows[i][n].err # None
    /\ HasEmbedding(i)

====
